---- MODULE Spec2Model ----
(***************************************************************************)
(* Local data layer of honk-web: the sql.js store (plates, votes), the     *)
(* vote transaction, the leaderboard queries, reset, and the snapshot      *)
(* persistence of the store to IndexedDB (idb-keyval) across page loads.   *)
(*                                                                         *)
(* Plate texts are sequences of one-character strings.  The columns        *)
(* updated_at / created_at are written by the code but never read by it    *)
(* and are left out of the rows.                                           *)
(***************************************************************************)
EXTENDS Integers, Sequences, FiniteSets, TLC

\* ---- bounds of the model --------------------------------------------------
MaxVotes    == 2   \* votes the handlers record over a behaviour of Spec
MaxInflight == 2   \* idbKeyval.set calls pending at once
MaxCalls    == 4   \* addVote calls that reach the insert in a behaviour of SpecApi
MaxLimit    == 2   \* largest limit the leaderboard queries are asked with

\* ---- strings ---------------------------------------------------------------
LowerChars == <<"a","b","c","d","e","f","g","h","i","j","k","l","m",
                "n","o","p","q","r","s","t","u","v","w","x","y","z">>
UpperChars == <<"A","B","C","D","E","F","G","H","I","J","K","L","M",
                "N","O","P","Q","R","S","T","U","V","W","X","Y","Z">>

IsSpace(c) == c \in {" ", "\t", "\n"}

UpperOf(c) ==
  IF \E i \in 1..Len(LowerChars) : LowerChars[i] = c
  THEN UpperChars[CHOOSE i \in 1..Len(LowerChars) : LowerChars[i] = c]
  ELSE c

\* String.prototype.toUpperCase
toUpperCase(s) == [i \in 1..Len(s) |-> UpperOf(s[i])]

RECURSIVE trimStart(_)
trimStart(s) ==
  IF s # <<>> /\ IsSpace(Head(s)) THEN trimStart(Tail(s)) ELSE s

RECURSIVE trimEnd(_)
trimEnd(s) ==
  IF s # <<>> /\ IsSpace(s[Len(s)]) THEN trimEnd(SubSeq(s, 1, Len(s) - 1)) ELSE s

\* String.prototype.trim
trim(s) == trimEnd(trimStart(s))

NoTrimUpper(plate) == toUpperCase(plate)
TrimOnly(plate) == trim(plate)
StripSpacesUpper(plate) == toUpperCase(SelectSeq(plate, LAMBDA c : ~IsSpace(c)))
\* const txPlate = plate.trim().toUpperCase()
txPlate(plate) == toUpperCase(trim(plate))

\* texts typed into #plate-input
RawInputs ==
  { <<>>,
    <<" ">>,
    <<"a","b","c"," ","1","2","3">>,
    <<"A","B","C","1","2","3">>,
    <<"x","y","z","9","9","9">>,
    <<" ","a","b","c","1","2","3"," ">> }

ABC123  == <<"A","B","C","1","2","3">>
ABC_123 == <<"A","B","C"," ","1","2","3">>
XYZ999  == <<"X","Y","Z","9","9","9">>

\* ---- the relational store (sql.js) ----------------------------------------
\* create table plates (...); create table votes (...)
EmptySchema == [plates |-> <<>>, votes |-> <<>>]

PlateRow(p, sc)   == [plate_text |-> p, score |-> sc]
VoteRow(id, p, v) == [id |-> id, plate_text |-> p, value |-> v]

\* select score from plates where plate_text = $p
HasPlate(s, p) == \E i \in 1..Len(s.plates) : s.plates[i].plate_text = p

ScoreOf(s, p) ==
  s.plates[CHOOSE i \in 1..Len(s.plates) : s.plates[i].plate_text = p].score

AlwaysInsertRow(s, p) == [s EXCEPT !.plates = Append(@, PlateRow(p, 0))]
ResetScoreEnsure(s, p) ==
  IF HasPlate(s, p)
  THEN [s EXCEPT !.plates =
          [i \in 1..Len(@) |-> IF @[i].plate_text = p THEN PlateRow(p, 0) ELSE @[i]]]
  ELSE [s EXCEPT !.plates = Append(@, PlateRow(p, 0))]
ensurePlateRow(s, p) ==
  IF HasPlate(s, p) THEN s
  ELSE [s EXCEPT !.plates = Append(@, PlateRow(p, 0))]

\* update plates set score = score + $v where plate_text = $p
UpdateScore(s, p, v) ==
  [s EXCEPT !.plates =
     [i \in 1..Len(@) |->
        IF @[i].plate_text = p THEN [@[i] EXCEPT !.score = @ + v] ELSE @[i]]]

\* votes: id text primary key, value integer check (value in (-1,1))
VoteConstraintsOk(s, id, v) ==
  /\ v \in {-1, 1}
  /\ \A i \in 1..Len(s.votes) : s.votes[i].id # id

SkipInsertVote(s, id, p, v) == s
UpsertVote(s, id, p, v) ==
  [s EXCEPT !.votes =
     Append(SelectSeq(@, LAMBDA r : r.plate_text # p), VoteRow(id, p, v))]
\* insert into votes (id, plate_text, value, created_at) values (...)
InsertVote(s, id, p, v) == [s EXCEPT !.votes = Append(@, VoteRow(id, p, v))]

\* The in-memory handle `db`: "none" before initDb has assigned it, "open" on
\* a readable database, "bad" when opened over bytes that are not a database
\* (every statement then throws; `file` holds those bytes).
NoDb        == [kind |-> "none", store |-> EmptySchema, file |-> <<>>]
OpenDb(s)   == [kind |-> "open", store |-> s, file |-> <<>>]
BadDb(b)    == [kind |-> "bad",  store |-> EmptySchema, file |-> b]

\* addVote(plate, value): the statements run one by one without a
\* transaction; a throw keeps what the earlier statements wrote.
addVote(d, plate, value, id) ==
  LET p  == txPlate(plate)
      s1 == ensurePlateRow(d.store, p)
      s2 == UpdateScore(s1, p, value)
  IN  IF p = <<>>          THEN [db |-> d, err |-> "Plate required"]
      ELSE IF d.kind = "none" THEN [db |-> d, err |-> "TypeError"]
      ELSE IF d.kind = "bad"  THEN [db |-> d, err |-> "file is not a database"]
      ELSE IF ~VoteConstraintsOk(s2, id, value)
                            THEN [db |-> OpenDb(s2), err |-> "constraint failed"]
      ELSE [db |-> OpenDb(InsertVote(s2, id, p, value)), err |-> ""]

\* ---- leaderboard -----------------------------------------------------------
queryLimit == 50

Min(a, b) == IF a < b THEN a ELSE b

\* where score > 0 (sign = 1) / where score < 0 (sign = -1): the rows kept
Where(s, sign) == { i \in 1..Len(s.plates) : sign * s.plates[i].score > 0 }

\* limit n: the first n rows of an ordering
Limit(rows, n) == SubSeq(rows, 1, Min(n, Len(rows)))

\* the kept rows with the order by clause left out: any order
Unordered(s, sign) ==
  LET P == Where(s, sign)
      n == Cardinality(P)
  IN  { [k \in 1..n |-> s.plates[f[k]]] :
          f \in { g \in [1..n -> P] : \A a, b \in 1..n : a < b => g[a] # g[b] } }
\* order by score desc (sign = 1) / order by score asc (sign = -1): the
\* orderings of the kept rows; SQL leaves the order of equal scores open
OrderBy(s, sign) ==
  LET P == Where(s, sign)
      n == Cardinality(P)
  IN  { [k \in 1..n |-> s.plates[f[k]]] :
          f \in { g \in [1..n -> P] :
                    /\ \A a, b \in 1..n : a < b => g[a] # g[b]
                    /\ \A a, b \in 1..n :
                         a < b => sign * s.plates[g[a]].score
                                    >= sign * s.plates[g[b]].score } }

\* The result sets of
\*   select plate_text, score from plates where score > 0 order by score desc limit n
\* (sign = 1) and
\*   select plate_text, score from plates where score < 0 order by score asc limit n
\* (sign = -1): filter, order, cut.
QueryResults(s, sign, limit) == { Limit(rows, limit) : rows \in OrderBy(s, sign) }

\* ... where score > 0 order by score desc limit 50
topPositive(s, limit) == QueryResults(s, 1, limit)
\* ... where score < 0 order by score asc limit 50
topNegative(s, limit) == QueryResults(s, -1, limit)

\* queryLeaderboard(): every { best, worst } the two queries can return
queryLeaderboard(s) ==
  { [best |-> b, worst |-> w] :
      b \in topPositive(s, queryLimit), w \in topNegative(s, queryLimit) }

\* ---- the database image (db.export() / new SQL.Database(bytes)) -----------
\* An image is a sequence of cells: a magic header, then per table a header
\* cell with its row count followed by one cell per row.
Cell(tag, txt, id, num) == [tag |-> tag, txt |-> txt, id |-> id, num |-> num]
Magic == Cell("SQLite format 3", <<>>, 0, 0)

PlateCellsZeroScore(rows) == [i \in 1..Len(rows) |-> Cell("p", rows[i].plate_text, 0, 0)]
PlateCells(rows) == [i \in 1..Len(rows) |-> Cell("p", rows[i].plate_text, 0, rows[i].score)]
VoteCells(rows)  == [i \in 1..Len(rows) |-> Cell("v", rows[i].plate_text, rows[i].id, rows[i].value)]

ExportWithoutVotes(s) ==
  <<Magic, Cell("plates", <<>>, 0, Len(s.plates))>> \o PlateCells(s.plates)
     \o <<Cell("votes", <<>>, 0, 0)>>
\* db.export() of a readable database
ExportStore(s) ==
  <<Magic, Cell("plates", <<>>, 0, Len(s.plates))>> \o PlateCells(s.plates)
     \o <<Cell("votes", <<>>, 0, Len(s.votes))>> \o VoteCells(s.votes)

\* db.export(): a database opened over unreadable bytes exports those bytes
export(d) == IF d.kind = "bad" THEN d.file ELSE ExportStore(d.store)

\* bytes sqlite accepts as a database
IsDatabase(b) == Len(b) >= 3 /\ b[1] = Magic

ImportPlatesOnly(b) ==
  [plates |-> [i \in 1..b[2].num |-> PlateRow(b[2 + i].txt, b[2 + i].num)],
   votes  |-> <<>>]
\* the store a readable image decodes to
ImportStore(b) ==
  LET np == b[2].num
      nv == b[3 + np].num
  IN  [plates |-> [i \in 1..np |-> PlateRow(b[2 + i].txt, b[2 + i].num)],
       votes  |-> [i \in 1..nv |-> VoteRow(b[3 + np + i].id, b[3 + np + i].txt,
                                              b[3 + np + i].num)]]

\* bytes that are not a database
Garbage == <<Cell("garbage", <<>>, 0, 0)>>

\* ---- values stored under DB_KEY -------------------------------------------
\* kind: "undefined" (no entry), "other" (a value that is neither a
\* Uint8Array nor has a .buffer), "u8" (a Uint8Array), "view" (another typed
\* array over the bytes).  snap is a history field: the store the bytes were
\* exported from (EmptySchema when they were not exported by persistDb).
Blob(kind, bytes, snap) == [kind |-> kind, bytes |-> bytes, snap |-> snap]
NoBlob == Blob("undefined", <<>>, EmptySchema)

\* ---- state ------------------------------------------------------------------
VARIABLES
  db,        \* the module-level `db` handle
  idb,       \* the value IndexedDB holds under DB_KEY
  inflight,  \* idbKeyval.set(DB_KEY, ...) calls issued and not yet settled, oldest first
  pc,        \* position of the module's top-level boot code
  hooks,     \* visibilitychange / beforeunload listeners registered
  nextId,    \* the next value uuid() returns
  ev         \* the last message shown or step taken by boot, a vote or a reset

vars == <<db, idb, inflight, pc, hooks, nextId, ev>>

Ev(op, res, arg, val) ==
  [op |-> op, res |-> res, arg |-> arg, val |-> val]

\* const uuid = () => ...  (a fresh identifier on every call)
uuid == nextId

\* what the environment may have left under DB_KEY before the first load
InitialBlobs ==
  { NoBlob,
    Blob("other", <<>>, EmptySchema),
    Blob("u8", Garbage, EmptySchema),
    Blob("view", ExportStore(EmptySchema), EmptySchema) }

Init ==
  /\ db = NoDb
  /\ idb \in InitialBlobs
  /\ inflight = <<>>
  /\ pc = "load"
  /\ hooks = FALSE
  /\ nextId = 1
  /\ ev = Ev("start", "", <<>>, 0)

\* ---- persistence ------------------------------------------------------------
ExportEmpty(d) == ExportStore(EmptySchema)
\* const binary = db.export()
Snapshot(d) == export(d)

\* persistDb() up to its await: the pending idbKeyval.set with the exported
\* bytes; owner is the code awaiting it ("boot", "vote", "reset", or "hook"
\* when nobody awaits it).
persistDb(d, owner, arg, val) ==
  [bytes |-> Snapshot(d), snap |-> d.store, owner |-> owner, arg |-> arg, val |-> val]

NewestFirst(q) == [i \in 1..Len(q) |-> q[Len(q) + 1 - i]]
\* the order in which the pending idbKeyval.set calls settle: each is a
\* readwrite transaction on the one object store, and IndexedDB runs those in
\* the order they were created
SettleOrder(q) == q

\* pc after the awaited persistDb() of `owner` settles
PcAfterPersist(owner, ok) ==
  IF owner = "boot" THEN (IF ok THEN "user" ELSE "crashed") ELSE pc

\* the oldest pending idbKeyval.set commits; the code awaiting it resumes
PersistCommit ==
  /\ inflight # <<>>
  /\ LET h == Head(SettleOrder(inflight)) IN
       /\ idb' = Blob("u8", h.bytes, h.snap)
       /\ inflight' = Tail(SettleOrder(inflight))
       /\ pc' = PcAfterPersist(h.owner, TRUE)
       /\ ev' = CASE h.owner = "boot"  -> Ev("initDb", "created", <<>>, 0)
                  [] h.owner = "vote"  -> Ev("voteDone", "Recorded", h.arg, h.val)
                  [] h.owner = "reset" -> Ev("resetDone", "Local DB reset.", <<>>, 0)
                  [] OTHER             -> Ev("persist", "ok", <<>>, 0)
  /\ UNCHANGED <<db, hooks, nextId>>

PersistFailReverts ==
  /\ inflight # <<>>
  /\ LET h == Head(SettleOrder(inflight)) IN
       /\ inflight' = Tail(SettleOrder(inflight))
       /\ pc' = PcAfterPersist(h.owner, FALSE)
       /\ db' = IF h.owner = "vote" /\ idb.kind = "u8" /\ IsDatabase(idb.bytes)
                THEN OpenDb(ImportStore(idb.bytes)) ELSE db
       /\ ev' = CASE h.owner = "boot"  -> Ev("initDb", "StorageUnavailable", <<>>, 0)
                  [] h.owner = "vote"  -> Ev("voteDone", "StorageUnavailable", h.arg, h.val)
                  [] h.owner = "reset" -> Ev("resetDone", "unhandled rejection", <<>>, 0)
                  [] OTHER             -> Ev("persist", "unhandled rejection", <<>>, 0)
  /\ UNCHANGED <<idb, hooks, nextId>>
\* the oldest pending idbKeyval.set rejects; the code awaiting it gets the error
PersistFail ==
  /\ inflight # <<>>
  /\ LET h == Head(SettleOrder(inflight)) IN
       /\ inflight' = Tail(SettleOrder(inflight))
       /\ pc' = PcAfterPersist(h.owner, FALSE)
       /\ ev' = CASE h.owner = "boot"  -> Ev("initDb", "StorageUnavailable", <<>>, 0)
                  [] h.owner = "vote"  -> Ev("voteDone", "StorageUnavailable", h.arg, h.val)
                  [] h.owner = "reset" -> Ev("resetDone", "unhandled rejection", <<>>, 0)
                  [] OTHER             -> Ev("persist", "unhandled rejection", <<>>, 0)
  /\ UNCHANGED <<db, idb, hooks, nextId>>

\* ---- boot -------------------------------------------------------------------
\* saved && saved instanceof Uint8Array, or saved && saved?.buffer
SavedIsBinary(saved) == saved.kind \in {"u8", "view"}

\* await initSqlJs(...) / await idbKeyval.get(DB_KEY) rejects: initDb rejects
\* and the top-level await throws, so nothing after it runs
InitDbReadFails ==
  /\ pc = "load"
  /\ pc' = "crashed"
  /\ ev' = Ev("initDb", "StorageUnavailable", <<>>, 0)
  /\ UNCHANGED <<db, idb, inflight, hooks, nextId>>

\* db = new SQL.Database(saved) over a readable image
InitDbRestore ==
  /\ pc = "load"
  /\ SavedIsBinary(idb)
  /\ IsDatabase(idb.bytes)
  /\ db' = OpenDb(ImportStore(idb.bytes))
  /\ pc' = "user"
  /\ ev' = Ev("initDb", "restored", <<>>, 0)
  /\ UNCHANGED <<idb, inflight, hooks, nextId>>

\* db = new SQL.Database(saved) over bytes that are not a database: the
\* constructor either throws (initDb rejects) or opens lazily, and then every
\* statement on the handle throws
InitDbCorrupt(ctorThrows) ==
  /\ pc = "load"
  /\ SavedIsBinary(idb)
  /\ ~IsDatabase(idb.bytes)
  /\ IF ctorThrows
     THEN /\ pc' = "crashed"
          /\ db' = db
          /\ ev' = Ev("initDb", "CorruptImage", <<>>, 0)
     ELSE /\ pc' = "user"
          /\ db' = BadDb(idb.bytes)
          /\ ev' = Ev("initDb", "opened unreadable", <<>>, 0)
  /\ UNCHANGED <<idb, inflight, hooks, nextId>>

\* else branch: db = new SQL.Database(); db.run(create ...); await persistDb()
InitDbFresh ==
  /\ pc = "load"
  /\ ~SavedIsBinary(idb)
  /\ db' = OpenDb(EmptySchema)
  /\ inflight' = Append(inflight, persistDb(db', "boot", <<>>, 0))
  /\ pc' = "persist"
  /\ ev' = Ev("initDb", "fresh", <<>>, 0)
  /\ UNCHANGED <<idb, hooks, nextId>>

\* const existingUser = await getUser(); the screen selection (recorded in
\* ev); the two addEventListener calls
BootFinish(existingUser) ==
  /\ pc = "user"
  /\ hooks' = TRUE
  /\ pc' = "ready"
  /\ ev' = Ev("boot", IF existingUser THEN "main screen" ELSE "auth screen", <<>>, 0)
  /\ UNCHANGED <<db, idb, inflight, nextId>>

\* await getUser() rejects: the rest of the boot sequence does not run
BootGetUserFails ==
  /\ pc = "user"
  /\ pc' = "crashed"
  /\ ev' = Ev("boot", "StorageUnavailable", <<>>, 0)
  /\ UNCHANGED <<db, idb, inflight, hooks, nextId>>

\* ---- handlers ---------------------------------------------------------------
Deltas == {1, -1}

\* the clicks of a behaviour: the text in #plate-input and the button
\* (votePlus: +1, voteMinus: -1)
Clicks ==
  { << <<>>, 1 >>,
    << <<" ">>, -1 >>,
    << <<"a","b","c"," ","1","2","3">>, 1 >>,
    << <<"A","B","C","1","2","3">>, 1 >>,
    << <<"A","B","C","1","2","3">>, -1 >>,
    << <<"x","y","z","9","9","9">>, -1 >>,
    << <<" ","a","b","c","1","2","3"," ">>, 1 >> }

\* votePlus.onclick / voteMinus.onclick up to the await inside
\* afterVoteCleanup; the continuation is PersistCommit / PersistFail
VoteClick(raw, value) ==
  LET p == txPlate(raw)
      r == addVote(db, p, value, uuid)
  IN  /\ (p # <<>> /\ db.kind = "open") =>
            (nextId <= MaxVotes /\ Len(inflight) < MaxInflight)
      /\ IF p = <<>>
         THEN /\ ev' = Ev("vote", "Plate required", <<>>, 0)
              /\ UNCHANGED <<db, inflight, nextId>>
         ELSE IF r.err # ""
         THEN /\ db' = r.db
              /\ ev' = Ev("vote", r.err, raw, value)
              /\ UNCHANGED <<inflight, nextId>>
         ELSE /\ db' = r.db
              /\ nextId' = nextId + 1
              /\ inflight' = Append(inflight, persistDb(db', "vote", p, value))
              /\ ev' = Ev("vote", "persisting", raw, value)
      /\ UNCHANGED <<idb, pc, hooks>>

\* resetDbBtn.onclick up to its await (a declined confirm() shows nothing)
ResetClick(confirmed) ==
  /\ confirmed => Len(inflight) < MaxInflight
  /\ IF ~confirmed
     THEN UNCHANGED <<db, inflight, ev>>
     ELSE IF db.kind # "open"
     THEN /\ ev' = Ev("reset", "unhandled rejection", <<>>, 0)
          /\ UNCHANGED <<db, inflight>>
     ELSE /\ db' = OpenDb(EmptySchema)
          /\ inflight' = Append(inflight, persistDb(db', "reset", <<>>, 0))
          /\ ev' = Ev("reset", "persisting", <<>>, 0)
  /\ UNCHANGED <<idb, pc, hooks, nextId>>

\* openScores.onclick -> loadScores(): renders a result of queryLeaderboard()
\* into the two lists, or shows the error in scoresMsg
OpenScores ==
  /\ IF db.kind = "open"
     THEN \E r \in queryLeaderboard(db.store) : ev' = ev
     ELSE ev' = Ev("scores", "error", <<>>, 0)
  /\ UNCHANGED <<db, idb, inflight, pc, hooks, nextId>>

\* visibilitychange with visibilityState "hidden": persistDb() not awaited
VisibilityHidden ==
  /\ hooks
  /\ Len(inflight) < MaxInflight
  /\ inflight' = Append(inflight, persistDb(db, "hook", <<>>, 0))
  /\ ev' = Ev("visibilitychange", "persisting", <<>>, 0)
  /\ UNCHANGED <<db, idb, pc, hooks, nextId>>

\* The page is unloaded and loaded again, any number of times.  beforeunload
\* calls persistDb() without awaiting it; of the writes pending at unload the
\* first k commit and the others are lost with the page.
Reload(k) ==
  /\ LET q == SettleOrder(IF hooks THEN Append(inflight, persistDb(db, "hook", <<>>, 0))
                                   ELSE inflight)
     IN  /\ k \in 0..Len(q)
         /\ idb' = IF k = 0 THEN idb ELSE Blob("u8", q[k].bytes, q[k].snap)
  /\ inflight' = <<>>
  /\ db' = NoDb
  /\ pc' = "load"
  /\ hooks' = FALSE
  /\ ev' = Ev("reload", "", <<>>, 0)
  /\ UNCHANGED nextId

Next ==
  \/ InitDbReadFails
  \/ InitDbRestore
  \/ \E t \in BOOLEAN : InitDbCorrupt(t)
  \/ InitDbFresh
  \/ \E u \in BOOLEAN : BootFinish(u)
  \/ BootGetUserFails
  \/ PersistCommit
  \/ PersistFail
  \/ \E c \in Clicks : VoteClick(c[1], c[2])
  \/ \E c \in BOOLEAN : ResetClick(c)
  \/ OpenScores
  \/ VisibilityHidden
  \/ \E k \in 0..(MaxInflight + 1) : Reload(k)

Spec == Init /\ [][Next]_vars

\* ---- the data layer called directly ---------------------------------------
\* addVote(plate, value) as its callers can call it: the raw texts of the
\* handlers with +1 / -1, and values the votes check constraint refuses
ApiCalls ==
  { << <<"a","b","c"," ","1","2","3">>, 1 >>,
    << <<"A","B","C","1","2","3">>, 1 >>,
    << <<"A","B","C","1","2","3">>, -1 >>,
    << <<"x","y","z","9","9","9">>, -1 >>,
    << <<"A","B","C","1","2","3">>, 2 >>,
    << <<"x","y","z","9","9","9">>, 0 >>,
    << <<" ","a","b","c","1","2","3"," ">>, -1 >>,
    << <<" ">>, 1 >> }

\* the store as initDb's create branch leaves it, persisted, boot finished
InitApi ==
  /\ db = OpenDb(EmptySchema)
  /\ idb = Blob("u8", ExportStore(EmptySchema), EmptySchema)
  /\ inflight = <<>>
  /\ pc = "ready"
  /\ hooks = TRUE
  /\ nextId = 1
  /\ ev = Ev("initDb", "created", <<>>, 0)

\* addVote(plate, value) called by a caller other than the two handlers;
\* uuid() is evaluated when the insert is bound, before its step() throws
CallAddVote(raw, value) ==
  LET r == addVote(db, raw, value, uuid)
  IN  /\ nextId <= MaxCalls
      /\ db' = r.db
      /\ nextId' = IF r.err \in {"", "constraint failed"} THEN nextId + 1 ELSE nextId
      /\ ev' = Ev("addVote", IF r.err = "" THEN "ok" ELSE r.err, raw, value)
      /\ UNCHANGED <<idb, inflight, pc, hooks>>

NextApi == \E c \in ApiCalls : CallAddVote(c[1], c[2])

SpecApi == InitApi /\ [][NextApi]_vars

\* ---- properties -------------------------------------------------------------
RECURSIVE SumVotes(_, _)
\* sum of value over the votes rows whose plate_text is p
SumVotes(votes, p) ==
  IF votes = <<>> THEN 0
  ELSE (IF Head(votes).plate_text = p THEN Head(votes).value ELSE 0)
       + SumVotes(Tail(votes), p)

VotesFor(s, p) == { i \in 1..Len(s.votes) : s.votes[i].plate_text = p }

IsBlank(raw) == \A i \in 1..Len(raw) : IsSpace(raw[i])

\* C1: in every state the program reaches, every plates row's score is the
\* sum of value over the votes rows of that plate.
C1_ScoreIsSumOfVotes ==
  db.kind = "open" =>
    \A i \in 1..Len(db.store.plates) :
      db.store.plates[i].score =
        SumVotes(db.store.votes, db.store.plates[i].plate_text)

\* C1 witness: a plate that took a +1 and a -1 and stands at score 0
C1_Witness ==
  /\ db.kind = "open"
  /\ HasPlate(db.store, ABC123)
  /\ Cardinality(VotesFor(db.store, ABC123)) = 2
  /\ ScoreOf(db.store, ABC123) = 0

\* C2: a call of addVote that fails on a constraint leaves plates and votes
\* exactly as they were before the call.
C2_FailedVoteWritesNothing ==
  [][ (ev'.op = "addVote" /\ ev'.res = "constraint failed") => db' = db ]_vars

\* C3: a vote whose plate text is empty or whitespace-only is rejected with
\* "Plate required"; it changes no row and starts no persist.
C3_BlankPlateRejected ==
  /\ [] (\A raw \in RawInputs, v \in Deltas :
           IsBlank(raw) => addVote(db, raw, v, uuid) = [db |-> db, err |-> "Plate required"])
  /\ [][ \A c \in Clicks :
           (IsBlank(c[1]) /\ VoteClick(c[1], c[2])) =>
             /\ ev'.res = "Plate required"
             /\ db' = db
             /\ idb' = idb
             /\ inflight' = inflight ]_vars

\* C3 witness: a blank vote was just rejected on a store with rows
C3_Witness ==
  /\ ev.op = "vote"
  /\ ev.res = "Plate required"
  /\ db.kind = "open"
  /\ Len(db.store.votes) >= 1

\* the scenario of C4: "abc 123" +1, "ABC123" +1, "xyz999" -1 on an empty store
ScenarioCalls ==
  << [raw |-> <<"a","b","c"," ","1","2","3">>, value |-> 1],
     [raw |-> <<"A","B","C","1","2","3">>,     value |-> 1],
     [raw |-> <<"x","y","z","9","9","9">>,     value |-> -1] >>

RECURSIVE ApplyCalls(_, _, _)
\* addVote applied to the calls in order, with the ids uuid() hands out from id on
ApplyCalls(d, cs, id) ==
  IF cs = <<>> THEN d
  ELSE ApplyCalls(addVote(d, Head(cs).raw, Head(cs).value, id).db, Tail(cs), id + 1)

AfterScenario ==
  /\ db.kind = "open"
  /\ db = ApplyCalls(OpenDb(EmptySchema), ScenarioCalls, 1)

\* C4 as stated: after the scenario the boards are [("ABC123", 2)] and
\* [("XYZ999", -1)].
C4_ScenarioAsStated ==
  AfterScenario =>
    queryLeaderboard(db.store) =
      { [best |-> <<PlateRow(ABC123, 2)>>, worst |-> <<PlateRow(XYZ999, -1)>>] }

\* C4 amended: after the scenario the positive board holds exactly
\* ("ABC 123", 1) and ("ABC123", 1), in either order, and the negative board
\* is [("XYZ999", -1)]: the inner space of "abc 123" is kept.
C4_ScenarioKeepsInnerSpace ==
  AfterScenario =>
    /\ queryLeaderboard(db.store) # {}
    /\ \A r \in queryLeaderboard(db.store) :
         /\ r.worst = <<PlateRow(XYZ999, -1)>>
         /\ r.best \in { <<PlateRow(ABC_123, 1), PlateRow(ABC123, 1)>>,
                         <<PlateRow(ABC123, 1), PlateRow(ABC_123, 1)>> }

\* C4 witness: the third call of the scenario has just returned
C4_Witness ==
  /\ AfterScenario
  /\ ev.op = "addVote"
  /\ ev.res = "ok"
  /\ ev.arg = <<"x","y","z","9","9","9">>

\* C5: an image exported by persistDb decodes to the store it was exported
\* from, and a boot that restores from the stored image has exactly the rows
\* of the store that image was exported from.
C5_RoundTrip ==
  /\ db.kind = "open" =>
       /\ IsDatabase(ExportStore(db.store))
       /\ ImportStore(ExportStore(db.store)) = db.store
  /\ \A i \in 1..Len(inflight) :
       IsDatabase(inflight[i].bytes) => ImportStore(inflight[i].bytes) = inflight[i].snap
  /\ (ev.op = "initDb" /\ ev.res = "restored") => db = OpenDb(idb.snap)

\* C5 witness: a boot restored a store with several plates and votes
C5_Witness ==
  /\ ev.op = "initDb"
  /\ ev.res = "restored"
  /\ idb.kind = "u8"
  /\ Len(db.store.plates) >= 2
  /\ Len(db.store.votes) >= 2

\* the durable value under DB_KEY is an image that decodes to store s
DurableIs(s) ==
  /\ idb.kind = "u8"
  /\ IsDatabase(idb.bytes)
  /\ ImportStore(idb.bytes) = s

\* C6: when a vote handler or the reset handler has completed successfully,
\* the durable image restores to exactly the current in-memory tables.
C6_DurableMatchesMemoryOnCompletion ==
  (ev.op \in {"voteDone", "resetDone"} /\ ev.res \in {"Recorded", "Local DB reset."}) =>
    (db.kind = "open" /\ DurableIs(db.store))

Last(q) == q[Len(q)]

\* C7: when the persist of a vote fails the handler shows the error and the
\* in-memory store is untouched and keeps taking votes and queries; every
\* persist that is started exports the whole current store, and a persist
\* that commits stores exactly the bytes it exported.
C7_PersistFailureNonFatal ==
  /\ [][ (Len(inflight') < Len(inflight) /\ ev'.op = "voteDone"
            /\ ev'.res = "StorageUnavailable") =>
           /\ db' = db
           /\ idb' = idb
           /\ db.kind = "open"
           /\ addVote(db', ABC123, 1, uuid').err = ""
           /\ queryLeaderboard(db'.store) # {} ]_vars
  /\ [][ (Len(inflight') > Len(inflight)) =>
           /\ Last(inflight').bytes = export(db')
           /\ db'.kind = "open" => ImportStore(Last(inflight').bytes) = db'.store ]_vars
  /\ [][ (Len(inflight') < Len(inflight)
            /\ ev'.res \in {"Recorded", "Local DB reset.", "created", "ok"}) =>
           idb' = Blob("u8", Head(inflight).bytes, Head(inflight).snap) ]_vars

\* C7 witness: the persist of a vote just failed, the vote's row is still in
\* the store, and a later persist in flight carries the whole store
C7_Witness ==
  /\ ev.op = "voteDone"
  /\ ev.res = "StorageUnavailable"
  /\ db.kind = "open"
  /\ HasPlate(db.store, ev.arg)
  /\ Len(db.store.votes) >= 2
  /\ ~DurableIs(db.store)
  /\ inflight # <<>>
  /\ IsDatabase(Last(inflight).bytes)
  /\ ImportStore(Last(inflight).bytes) = db.store

\* C8: when the reset handler has completed, plates and votes have no rows,
\* both leaderboards are empty, and the durable image restores to the empty
\* schema.
C8_ResetLeavesEverythingEmpty ==
  (ev.op = "resetDone" /\ ev.res = "Local DB reset.") =>
    /\ db = OpenDb(EmptySchema)
    /\ queryLeaderboard(db.store) = { [best |-> <<>>, worst |-> <<>>] }
    /\ DurableIs(EmptySchema)

\* a value is stored under DB_KEY and it is not a readable database image
ImageUnreadable(b) ==
  /\ b.kind # "undefined"
  /\ ~(SavedIsBinary(b) /\ IsDatabase(b.bytes))

\* C9: when initDb reads a stored value that is not a readable image, it
\* leaves an open store with empty plates and votes that accepts votes, and
\* boot goes on.
C9_UnreadableImageFallsBackToFresh ==
  [][ (pc = "load" /\ pc' # "load" /\ ev'.res # "StorageUnavailable"
         /\ ImageUnreadable(idb)) =>
        /\ pc' # "crashed"
        /\ db' = OpenDb(EmptySchema)
        /\ addVote(db', ABC123, 1, uuid').err = "" ]_vars

\* C10: when reading DB_KEY fails at boot, initDb still leaves an open
\* empty-schema store and the boot sequence goes on.
C10_ReadFailureFallsBackToFresh ==
  [][ (pc = "load" /\ ev'.op = "initDb" /\ ev'.res = "StorageUnavailable") =>
        /\ pc' # "crashed"
        /\ db' = OpenDb(EmptySchema) ]_vars

\* a vote or reset handler has just started a mutation: its persistDb() is the
\* newest pending write
MutationStarts ==
  /\ Len(inflight') > Len(inflight)
  /\ inflight'[Len(inflight')].owner \in {"vote", "reset"}

\* a write issued by an earlier vote or reset handler is still pending
EarlierMutationPersisting ==
  \E i \in 1..Len(inflight) : inflight[i].owner \in {"vote", "reset"}

\* C11: no vote or reset starts while the persist of an earlier vote or reset
\* is still in flight.
C11_NoMutationDuringPersist ==
  [][ MutationStarts => ~EarlierMutationPersisting ]_vars

\* the plate texts the inputs of a behaviour normalize to
PlateTexts == { txPlate(r) : r \in RawInputs } \ { <<>> }

Limits == 0..MaxLimit

\* rows is an admissible answer of a leaderboard query with this sign and limit
\* over store s: at most limit rows of plates, each plate once, every score on
\* the query's side of 0, best first, and no row left out that beats a row
\* returned
BoardOk(s, rows, sign, limit) ==
  /\ Len(rows) <= limit
  /\ \A k \in 1..Len(rows) :
       /\ sign * rows[k].score > 0
       /\ \E i \in 1..Len(s.plates) : s.plates[i] = rows[k]
  /\ \A a, b \in 1..Len(rows) :
       a < b => /\ sign * rows[a].score >= sign * rows[b].score
                /\ rows[a].plate_text # rows[b].plate_text
  /\ \A i \in 1..Len(s.plates) :
       (\A k \in 1..Len(rows) : rows[k] # s.plates[i]) =>
          \A k \in 1..Len(rows) : sign * s.plates[i].score <= sign * rows[k].score

\* C13: for every store and limit, topPositive returns at most limit rows, all
\* with score > 0, in non-increasing score order, leaving out no plate that
\* scores higher than a returned one; topNegative likewise with score < 0 and
\* the most negative first; a plate with score 0 is in neither.
C13_LeaderboardOrderAndLimit ==
  db.kind = "open" =>
    \A limit \in Limits :
      /\ topPositive(db.store, limit) # {}
      /\ topNegative(db.store, limit) # {}
      /\ \A r \in topPositive(db.store, limit) : BoardOk(db.store, r, 1, limit)
      /\ \A r \in topNegative(db.store, limit) : BoardOk(db.store, r, -1, limit)
      /\ \A r \in topPositive(db.store, limit) \cup topNegative(db.store, limit) :
           \A k \in 1..Len(r) : r[k].score # 0

\* C13 witness: more positive plates than the limit, with different scores,
\* next to a plate below 0, so a query with limit 1 has to leave the lower
\* positive plate out
C13_Witness ==
  /\ db.kind = "open"
  /\ \E i, j, k \in 1..Len(db.store.plates) :
       /\ db.store.plates[i].score > db.store.plates[j].score
       /\ db.store.plates[j].score > 0
       /\ db.store.plates[k].score < 0
  /\ 1 \in Limits
  /\ \A r \in topPositive(db.store, 1) : Len(r) = 1 /\ r[1].score = 2

LowerOf(c) ==
  IF \E i \in 1..Len(UpperChars) : UpperChars[i] = c
  THEN LowerChars[CHOOSE i \in 1..Len(UpperChars) : UpperChars[i] = c]
  ELSE c

\* whitespace put before or after a text
Pads == { <<>>, <<" ">>, <<"\t", "\n">> }

\* the texts that differ from raw only in letter case and surrounding whitespace
Variants(raw) ==
  LET core == trim(raw)
  IN  { l \o c \o r :
          l \in Pads, r \in Pads,
          c \in { core, toUpperCase(core), [i \in 1..Len(core) |-> LowerOf(core[i])] } }

\* normalize(normalize(s)) = normalize(s) over the inputs and their variants
NormalizeIdempotent ==
  \A raw \in RawInputs : \A w \in Variants(raw) : txPlate(txPlate(w)) = txPlate(w)

\* case and surrounding whitespace do not change what a text normalizes to
VariantsNormalizeAlike ==
  \A raw \in RawInputs : \A w \in Variants(raw) : txPlate(w) = txPlate(raw)

Padded_abc123 == <<" ","a","b","c","1","2","3"," ">>

\* C14: normalization is idempotent; inputs that differ only in letter case
\* and surrounding whitespace normalize alike; and a vote for " abc123 " and a
\* vote for "ABC123" update one and the same plates row.
C14_NormalizationIdentity ==
  /\ [] NormalizeIdempotent
  /\ [] VariantsNormalizeAlike
  /\ [] (db.kind = "open" =>
           LET d1 == addVote(db, Padded_abc123, 1, uuid).db
               d2 == addVote(d1, ABC123, 1, uuid + 1).db
               n0 == IF HasPlate(db.store, ABC123) THEN ScoreOf(db.store, ABC123) ELSE 0
           IN  /\ d1 = addVote(db, ABC123, 1, uuid).db
               /\ Cardinality({ i \in 1..Len(d2.store.plates) :
                                  d2.store.plates[i].plate_text = ABC123 }) = 1
               /\ ScoreOf(d2.store, ABC123) = n0 + 2
               /\ Len(d2.store.plates) <= Len(db.store.plates) + 1)
  /\ [][ VoteClick(Padded_abc123, 1) =>
           /\ db' = addVote(db, ABC123, 1, uuid).db
           /\ (db.kind = "open" => ev'.res = "persisting") ]_vars

\* C14 witness: " abc123 " was just voted on a store that already had the row
\* of "ABC123", and there is still one row, now with two votes
C14_Witness ==
  /\ ev.op = "vote"
  /\ ev.res = "persisting"
  /\ ev.arg = Padded_abc123
  /\ db.kind = "open"
  /\ Len(db.store.plates) = 1
  /\ Cardinality(VotesFor(db.store, ABC123)) = 2
  /\ ScoreOf(db.store, ABC123) = 2

\* q starts with the rows of p, unchanged and in place
IsPrefix(p, q) == Len(p) <= Len(q) /\ SubSeq(q, 1, Len(p)) = p

\* the scenario of C15: "ABC123" +1, then -1, then -1 on an empty store
ThreeVotes ==
  << [raw |-> ABC123, value |-> 1],
     [raw |-> ABC123, value |-> -1],
     [raw |-> ABC123, value |-> -1] >>

AfterThreeVotes == db = ApplyCalls(OpenDb(EmptySchema), ThreeVotes, 1)

\* C15: with no reset, a call of addVote leaves every existing votes row as it
\* is; a successful call appends exactly one row, with an id no row had, for
\* the normalized plate and the value given, and a call that fails appends
\* none; after +1, -1, -1 on "ABC123" the score is -1 and votes has exactly 3
\* rows for the plate.
C15_VotesAppendOnly ==
  /\ [][ \A c \in ApiCalls :
           CallAddVote(c[1], c[2]) =>
             /\ IsPrefix(db.store.votes, db'.store.votes)
             /\ IF ev'.res = "ok"
                THEN /\ db'.store.votes =
                          Append(db.store.votes, VoteRow(uuid, txPlate(c[1]), c[2]))
                     /\ \A i \in 1..Len(db.store.votes) : db.store.votes[i].id # uuid
                     /\ Cardinality(VotesFor(db'.store, txPlate(c[1])))
                          = Cardinality(VotesFor(db.store, txPlate(c[1]))) + 1
                ELSE db'.store.votes = db.store.votes ]_vars
  /\ [] (AfterThreeVotes =>
           /\ ScoreOf(db.store, ABC123) = -1
           /\ Cardinality(VotesFor(db.store, ABC123)) = 3
           /\ Len(db.store.votes) = 3
           /\ Len(db.store.plates) = 1)

\* C15 witness: the third vote of the scenario has just been recorded
C15_Witness ==
  /\ AfterThreeVotes
  /\ ev.op = "addVote"
  /\ ev.res = "ok"
  /\ ev.arg = ABC123
  /\ ev.val = -1
  /\ Len(db.store.votes) = 3

\* initDb leaves its first await with a value read from DB_KEY
InitDbReads == pc = "load" /\ pc' # "load" /\ ev'.res # "StorageUnavailable"

\* C16: when DB_KEY holds no image, initDb creates the empty schema and
\* starts a write of its image, and when initDb then returns the durable image
\* restores to empty tables; when DB_KEY holds an image, initDb opens the store
\* that image was exported from and boot neither writes nor starts a write.
C16_BootRestoreOrInit ==
  /\ [][ (InitDbReads /\ ~SavedIsBinary(idb)) =>
           /\ db' = OpenDb(EmptySchema)
           /\ pc' = "persist"
           /\ idb' = idb
           /\ inflight' = Append(inflight, Last(inflight'))
           /\ Last(inflight').bytes = ExportStore(EmptySchema)
           /\ Last(inflight').owner = "boot" ]_vars
  /\ [][ (pc = "persist" /\ pc' = "user") =>
           /\ idb'.kind = "u8"
           /\ idb'.bytes = ExportStore(EmptySchema)
           /\ IsDatabase(idb'.bytes)
           /\ ImportStore(idb'.bytes) = EmptySchema
           /\ db'.kind = "open" ]_vars
  /\ [][ (InitDbReads /\ SavedIsBinary(idb)) =>
           /\ idb' = idb
           /\ inflight' = inflight
           /\ IsDatabase(idb.bytes) => (db' = OpenDb(idb.snap) /\ pc' = "user") ]_vars
  /\ [][ (pc = "user" /\ pc' \in {"ready", "crashed"}) =>
           (idb' = idb /\ inflight' = inflight) ]_vars

\* C16 witness: a boot that found an image with votes has finished; the store
\* holds the image's rows and the image is the one it found
C16_Witness ==
  /\ pc = "ready"
  /\ ev.op = "boot"
  /\ ev.res \in {"main screen", "auth screen"}
  /\ idb.kind = "u8"
  /\ IsDatabase(idb.bytes)
  /\ Len(idb.snap.votes) >= 1
  /\ db = OpenDb(idb.snap)
  /\ inflight = <<>>
  /\ nextId > MaxVotes

\* a stored plate text is not empty, has no whitespace at either end and no
\* lower-case letter
IsNormalized(t) ==
  /\ t # <<>>
  /\ ~IsSpace(t[1])
  /\ ~IsSpace(t[Len(t)])
  /\ \A i \in 1..Len(t) : \A k \in 1..Len(LowerChars) : t[i] # LowerChars[k]

\* the rows of plates other than p's are the same, in the same places
OtherRowsKept(s, t, p) ==
  \A i \in 1..Len(s.plates) :
    s.plates[i].plate_text # p => (i <= Len(t.plates) /\ t.plates[i] = s.plates[i])

\* C17: every plate_text in plates and in votes is normalized and not empty,
\* plates has one row per plate text at most, and a vote for a plate that has
\* a row adds no row and applies the delta to the score the row had.
C17_NormalizedUniquePlateText ==
  /\ [] (db.kind = "open" =>
           /\ \A i \in 1..Len(db.store.plates) :
                IsNormalized(db.store.plates[i].plate_text)
           /\ \A i \in 1..Len(db.store.votes) :
                IsNormalized(db.store.votes[i].plate_text)
           /\ \A i, j \in 1..Len(db.store.plates) :
                db.store.plates[i].plate_text = db.store.plates[j].plate_text => i = j)
  /\ [][ \A c \in ApiCalls :
           (CallAddVote(c[1], c[2]) /\ HasPlate(db.store, txPlate(c[1]))) =>
             /\ Len(db'.store.plates) = Len(db.store.plates)
             /\ OtherRowsKept(db.store, db'.store, txPlate(c[1]))
             /\ ev'.res = "ok" =>
                  ScoreOf(db'.store, txPlate(c[1]))
                    = ScoreOf(db.store, txPlate(c[1])) + c[2] ]_vars

\* C17 witness: "xyz999" was voted down a second time; plates has the one row
\* "XYZ999", at -2
C17_Witness ==
  /\ ev.op = "addVote"
  /\ ev.res = "ok"
  /\ ev.arg = <<"x","y","z","9","9","9">>
  /\ db.kind = "open"
  /\ db.store.plates = <<PlateRow(XYZ999, -2)>>
  /\ Cardinality(VotesFor(db.store, XYZ999)) = 2

\* store s is a state between complete operations: every score is the sum of
\* the plate's votes, every plate row has a vote and every vote a plate row
ConsistentStore(s) ==
  /\ \A i \in 1..Len(s.plates) :
       /\ s.plates[i].score = SumVotes(s.votes, s.plates[i].plate_text)
       /\ VotesFor(s, s.plates[i].plate_text) # {}
  /\ \A i \in 1..Len(s.votes) : HasPlate(s, s.votes[i].plate_text)

\* a database image decodes to the store it was exported from, and that store
\* is a state between complete operations
ImageOk(bytes, snap) ==
  IsDatabase(bytes) => (ImportStore(bytes) = snap /\ ConsistentStore(ImportStore(bytes)))

\* C18: every image a persistDb call writes or is about to write decodes to a
\* store between complete operations (score = sum of votes, no half-applied
\* vote or reset); it is exported from the in-memory store as it stands when
\* the call is made; and whatever is committed when the page goes away, the
\* durable value is one of those images or the value it was before.
C18_DurableImageConsistent ==
  /\ [] (/\ \A i \in 1..Len(inflight) : ImageOk(inflight[i].bytes, inflight[i].snap)
         /\ SavedIsBinary(idb) => ImageOk(idb.bytes, idb.snap)
         /\ db.kind = "open" => ConsistentStore(db.store))
  /\ [][ Len(inflight') > Len(inflight) =>
           /\ Last(inflight').bytes = export(db')
           /\ Last(inflight').snap = db'.store
           /\ db'.kind = "open" => IsDatabase(Last(inflight').bytes) ]_vars
  /\ [][ idb' # idb =>
           \/ \E i \in 1..Len(inflight) :
                idb' = Blob("u8", inflight[i].bytes, inflight[i].snap)
           \/ hooks /\ idb' = Blob("u8", export(db), db.store) ]_vars

\* C18 witness: the page went away after two votes with only the first vote's
\* write committed; the durable image is the store as it was after that vote
C18_Witness ==
  /\ ev.op = "reload"
  /\ nextId = 3
  /\ idb.kind = "u8"
  /\ IsDatabase(idb.bytes)
  /\ Len(ImportStore(idb.bytes).votes) = 1
  /\ ConsistentStore(ImportStore(idb.bytes))

\* store a is an earlier stage of store b: b has the votes of a and more
\* (votes are only appended, each with a new id)
StrictlyOlder(a, b) ==
  /\ a.votes # <<>>
  /\ Len(a.votes) < Len(b.votes)
  /\ IsPrefix(a.votes, b.votes)

\* a pending write has just committed
WriteCommits ==
  /\ Len(inflight') < Len(inflight)
  /\ ev'.res \in {"Recorded", "Local DB reset.", "created", "ok"}

VoteHandlerCatchesPersistError ==
  /\ Len(inflight') < Len(inflight)
  /\ ev'.op = "voteDone"
  /\ ev'.res = "StorageUnavailable"

\* a vote handler ends with an error before any write was started (the steps
\* that leave such a message standing change nothing at all)
VoteHandlerFailsAtOnce == ev'.op = "vote" /\ ev'.res # "persisting"

\* the votes row the handler whose write is the oldest pending one inserted
VoteOfOldestWrite == Last(inflight[1].snap.votes)

\* C20 as stated: whenever a vote handler ends with an error message, the
\* in-memory tables are as they were before the click: they do not hold the
\* vote of that click.
C20_ErrorMeansNoVote ==
  /\ [][ VoteHandlerFailsAtOnce => db' = db ]_vars
  /\ [][ VoteHandlerCatchesPersistError =>
           \A i \in 1..Len(db'.store.votes) : db'.store.votes[i] # VoteOfOldestWrite ]_vars

\* C20 amended: an error raised before addVote has run a statement (empty
\* plate, no open store) leaves the tables as they were before the click and
\* starts no write; an error from the persist that follows a recorded vote
\* changes nothing in memory: the vote stays recorded unless a reset has
\* removed it since.
C20_ErrorKeepsMemoryAsIs ==
  /\ [][ VoteHandlerFailsAtOnce =>
           (db' = db /\ inflight' = inflight /\ idb' = idb /\ nextId' = nextId) ]_vars
  /\ [][ VoteHandlerCatchesPersistError =>
           /\ db' = db
           /\ idb' = idb
           /\ \/ \E i \in 1..Len(db'.store.votes) : db'.store.votes[i] = VoteOfOldestWrite
              \/ \A i \in 1..Len(db'.store.votes) :
                   db'.store.votes[i].id > VoteOfOldestWrite.id ]_vars

\* C20 witness: the write of a vote was rejected and no other write is
\* pending; the vote is in memory and not in the durable image
C20_Witness ==
  /\ ev.op = "voteDone"
  /\ ev.res = "StorageUnavailable"
  /\ inflight = <<>>
  /\ db.kind = "open"
  /\ Len(db.store.votes) = 1
  /\ db.store.votes[1].plate_text = ev.arg
  /\ db.store.votes[1].value = ev.val
  /\ SavedIsBinary(idb) /\ IsDatabase(idb.bytes)
  /\ ImportStore(idb.bytes).votes = <<>>
====
